---- MODULE Spec2Model ----
(***************************************************************************)
(* ECS worker autoscaler (src/ecs_task_autoscaler.py).                     *)
(*                                                                         *)
(* One invocation of autoscale_ecs_workers() is one step.  The state that  *)
(* survives between invocations lives outside the process: the Redis key   *)
(* "ecs_autoscaler:scale_down_time" (timer), the desired count of the ECS  *)
(* service (desiredCount) and the wall clock (now).  The configuration is  *)
(* read from the environment once, at import.                              *)
(*                                                                         *)
(* Python values are modelled as follows.                                  *)
(*   str / None   a record [k, v]: k = "None" is Python's None, "empty" is *)
(*                the empty string, "num" is str() of the number v,        *)
(*                "nan", "inf", "-inf" are those literal strings and       *)
(*                "junk" is any string float() rejects.                    *)
(*   float        a record [k, v]: k = "fin" is the finite number v,       *)
(*                "pinf", "ninf", "nan" are the IEEE specials.             *)
(*   dict         a record with the dict's keys.                           *)
(* Times are whole seconds.  math.ceil(a / b) is exact integer ceiling,    *)
(* which agrees with the float computation for the magnitudes used here.   *)
(***************************************************************************)
EXTENDS Integers, Sequences, FiniteSets, TLC

VARIABLES
    MIN_WORKERS,        \* int(os.getenv('MIN_WORKERS', '1'))
    MAX_WORKERS,        \* int(os.getenv('MAX_WORKERS', '20'))
    TASKS_PER_WORKER,   \* int(os.getenv('TASKS_PER_WORKER', '200'))
    SCALE_DOWN_DELAY,   \* int(os.getenv('SCALE_DOWN_DELAY', '900'))
    DRY_RUN,            \* module global, env DRY_RUN or --dry-run
    now,                \* time.time()
    timer,              \* Redis value under scale_down_key
    desiredCount,       \* desiredCount of the ECS service
    result,             \* what the call at this instant returned (or that it raised)
    obs,                \* what the call at this instant observed and did
    hist,               \* history of the run (for the temporal claims)
    twin,               \* a second engine fed the same observations (dry run)
    inflight            \* the calls in progress, when calls may overlap

vars == << MIN_WORKERS, MAX_WORKERS, TASKS_PER_WORKER, SCALE_DOWN_DELAY, DRY_RUN,
           now, timer, desiredCount, result, obs, hist, twin, inflight >>

cfgVars == << MIN_WORKERS, MAX_WORKERS, TASKS_PER_WORKER, SCALE_DOWN_DELAY, DRY_RUN >>

----------------------------------------------------------------------------
(* Bounds of the model *)

MaxTime == 3          \* the clock runs over 0 .. MaxTime
MaxQueue == 250       \* largest queue depth read from RabbitMQ
MaxCount == 3         \* largest desired count / MAX_WORKERS of the model
MaxFailures == 1      \* failures of update_service in a run of SpecLive

(* Program constants *)

BacklogThreshold == 100   \* "if queue_size >= 100"
BacklogWorkers == 2       \* "max(2, ...)"

----------------------------------------------------------------------------
(* Python values *)

None == [k |-> "None", v |-> 0]
PyStr(kind) == [k |-> kind, v |-> 0]
Fin(n) == [k |-> "fin", v |-> n]
Special(kind) == [k |-> kind, v |-> 0]

\* str(x) for a number x
str(x) == [k |-> "num", v |-> x]

\* "not s" for s a str or None
Falsy(s) == s.k \in {"None", "empty"}

\* float(s): the float, or the exception raised
float_ValueError == [k |-> "ValueError", v |-> 0]

float(s) ==
    CASE s.k = "num" -> Fin(s.v)
      [] s.k = "nan" -> Special("nan")
      [] s.k = "inf" -> Special("pinf")
      [] s.k = "-inf" -> Special("ninf")
      [] s.k = "None" -> [k |-> "TypeError", v |-> 0]
      [] OTHER -> float_ValueError

\* a - f for an int a and a float f
FloatSub(a, f) ==
    CASE f.k = "fin" -> Fin(a - f.v)
      [] f.k = "pinf" -> Special("ninf")
      [] f.k = "ninf" -> Special("pinf")
      [] OTHER -> Special("nan")

\* f >= a for a float f and an int a
FloatGE(f, a) ==
    CASE f.k = "fin" -> f.v >= a
      [] f.k = "pinf" -> TRUE
      [] OTHER -> FALSE

Max(a, b) == IF a >= b THEN a ELSE b
Min(a, b) == IF a <= b THEN a ELSE b

\* math.ceil(a / b) for b # 0
ceil(a, b) == IF b > 0 THEN -((-a) \div b) ELSE -(a \div (-b))

----------------------------------------------------------------------------
(* Collaborators *)

\* get_redis_client(): the client, or None when redis.Redis() raised
get_redis_client(ctor_ok) == IF ctor_ok THEN "client" ELSE "None"

\* get_queue_size(): messages_ready, 0 on any error
get_queue_size(ok, messages_ready) == IF ok THEN messages_ready ELSE 0

\* get_current_workers(): desiredCount of the service, MIN_WORKERS on any error
get_current_workers_zero(ok, count) == IF ok THEN count ELSE 0

get_current_workers(ok, count) == IF ok THEN count ELSE MIN_WORKERS

\* scale_workers(count), lines 130-154: attempted says update_service was called,
\* raised that it raised, ok is the value returned, count the desired count of
\* the service afterwards
scale_workers_ignores_dry_run(count, dry, ecs_ok, before) ==
    IF ecs_ok THEN [attempted |-> TRUE, raised |-> FALSE, ok |-> TRUE, count |-> count]
    ELSE [attempted |-> TRUE, raised |-> TRUE, ok |-> FALSE, count |-> before]

scale_workers(count, dry, ecs_ok, before) ==
    IF dry THEN [attempted |-> FALSE, raised |-> FALSE, ok |-> TRUE, count |-> before]
    ELSE IF ecs_ok THEN [attempted |-> TRUE, raised |-> FALSE, ok |-> TRUE, count |-> count]
    ELSE [attempted |-> TRUE, raised |-> TRUE, ok |-> FALSE, count |-> before]

\* redis_client.delete(scale_down_key): the value under the key afterwards
redis_delete_noop(stored) == stored

redis_delete(stored) == None

\* redis_client.set(scale_down_key, value): the value under the key afterwards
redis_set_dropped(stored, value) == stored

redis_set(stored, value) == value

----------------------------------------------------------------------------
(* Target calculation, lines 186-191 *)

needed_workers_uncapped(queue_size) ==
    IF queue_size >= BacklogThreshold
    THEN Max(BacklogWorkers, ceil(queue_size, TASKS_PER_WORKER))
    ELSE Max(MIN_WORKERS, ceil(queue_size, TASKS_PER_WORKER))

needed_workers(queue_size) ==
    IF queue_size >= BacklogThreshold
    THEN Max(BacklogWorkers, Min(ceil(queue_size, TASKS_PER_WORKER), MAX_WORKERS))
    ELSE Max(MIN_WORKERS, Min(ceil(queue_size, TASKS_PER_WORKER), MAX_WORKERS))

----------------------------------------------------------------------------
(* Result dicts, lines 200-262 *)

Raised(exc) == [raised |-> exc]
NoCall == Raised("-")
Returned(r) == "action" \in DOMAIN r

NoScale == [called |-> FALSE, arg |-> 0, attempted |-> FALSE, raised |-> FALSE, ok |-> TRUE]
Scaled(arg, sw) ==
    [called |-> TRUE, arg |-> arg, attempted |-> sw.attempted, raised |-> sw.raised,
     ok |-> sw.ok]

\* What one call does: ret is the returned dict (or the exception that escaped),
\* store the Redis value afterwards, ops the Redis commands issued, sw the call
\* of scale_workers, count the desired count of the service afterwards.
Outcome(ret, store, ops, sw, count) ==
    [ret |-> ret, store |-> store, ops |-> ops, sw |-> sw, count |-> count]

----------------------------------------------------------------------------
(* Case 1, lines 195-202: needed == current *)

no_change_sets_count(client, fault, queue_size, current, stored, count) ==
    Outcome([action |-> "no_change", workers |-> current, queue |-> queue_size],
            IF client = "None" THEN stored ELSE None,
            IF client = "None" THEN << >> ELSE << "delete" >>,
            [called |-> TRUE, arg |-> current, attempted |-> TRUE, raised |-> FALSE,
             ok |-> TRUE],
            current)

no_change_keeps_timer(client, fault, queue_size, current, stored, count) ==
    IF client # "None" /\ fault = 1
    THEN Outcome(Raised("ConnectionError"), stored, << "delete" >>, NoScale, count)
    ELSE Outcome([action |-> "no_change", workers |-> current, queue |-> queue_size],
                 stored, << >>, NoScale, count)

no_change(client, fault, queue_size, current, stored, count) ==
    IF client = "None"
    THEN Outcome([action |-> "no_change", workers |-> current, queue |-> queue_size],
                 stored, << >>, NoScale, count)
    ELSE IF fault = 1
    THEN Outcome(Raised("ConnectionError"), stored, << "delete" >>, NoScale, count)
    ELSE Outcome([action |-> "no_change", workers |-> current, queue |-> queue_size],
                 redis_delete(stored), << "delete" >>, NoScale, count)

(* Case 2, lines 204-212: needed > current *)

scale_up(client, fault, queue_size, current, needed, stored, dry, ecs_ok, count) ==
    LET sw == scale_workers(needed, dry, ecs_ok, count)
        ret == [action |-> "scale_up", from |-> current, to |-> needed, queue |-> queue_size]
    IN  IF client = "None"
        THEN Outcome(ret, stored, << >>, Scaled(needed, sw), sw.count)
        ELSE IF fault = 1
        THEN Outcome(Raised("ConnectionError"), stored, << "delete" >>, NoScale, count)
        ELSE Outcome(ret, redis_delete(stored), << "delete" >>, Scaled(needed, sw), sw.count)

(* Case 3, lines 214-262: needed < current *)

\* elapsed >= SCALE_DOWN_DELAY, line 245
delay_elapsed_early(elapsed) == FloatGE(elapsed, SCALE_DOWN_DELAY - 1)

delay_elapsed(elapsed) == FloatGE(elapsed, SCALE_DOWN_DELAY)

\* SCALE_DOWN_DELAY - elapsed, line 252
remaining_of(elapsed) == FloatSub(SCALE_DOWN_DELAY, elapsed)

scale_down(client, fault, queue_size, current, needed, stored, t, dry, ecs_ok, count) ==
    LET sw == scale_workers(needed, dry, ecs_ok, count)
        parsed == float(stored)
        elapsed == FloatSub(t, parsed)
    IN  IF client = "None"
        THEN \* lines 217-220
             Outcome([action |-> "scale_down", from |-> current, to |-> needed,
                      queue |-> queue_size, note |-> "redis_unavailable"],
                     stored, << >>, Scaled(needed, sw), sw.count)
        ELSE IF fault = 1
        THEN \* line 223 raises
             Outcome(Raised("ConnectionError"), stored, << "get" >>, NoScale, count)
        ELSE IF Falsy(stored)
        THEN \* lines 226-231
             IF fault = 2
             THEN Outcome(Raised("ConnectionError"), stored, << "get", "set" >>, NoScale, count)
             ELSE Outcome([action |-> "scale_down_delayed", workers |-> current,
                           target |-> needed, queue |-> queue_size],
                          redis_set(stored, str(t)), << "get", "set" >>, NoScale, count)
        ELSE IF parsed.k \in {"ValueError", "TypeError"}
        THEN \* lines 237-242
             IF fault = 2
             THEN Outcome(Raised("ConnectionError"), stored, << "get", "set" >>, NoScale, count)
             ELSE Outcome([action |-> "scale_down_timer_reset", workers |-> current,
                           queue |-> queue_size],
                          redis_set(stored, str(t)), << "get", "set" >>, NoScale, count)
        ELSE IF delay_elapsed(elapsed)
        THEN \* lines 245-249
             IF fault = 2
             THEN Outcome(Raised("ConnectionError"), stored, << "get", "delete" >>, NoScale, count)
             ELSE Outcome([action |-> "scale_down", from |-> current, to |-> needed,
                           queue |-> queue_size],
                          redis_delete(stored), << "get", "delete" >>, Scaled(needed, sw),
                          sw.count)
        ELSE \* lines 251-262
             Outcome([action |-> "scale_down_waiting", remaining |-> remaining_of(elapsed),
                      from |-> current, to |-> needed, queue |-> queue_size],
                     stored, << "get" >>, NoScale, count)

(* autoscale_ecs_workers(), lines 157-262 *)

autoscale_ecs_workers(client, fault, queue_size, current, stored, t, dry, ecs_ok, count) ==
    LET needed == needed_workers(queue_size)
    IN  IF TASKS_PER_WORKER = 0
        THEN \* queue_size / TASKS_PER_WORKER raises on line 189 or 191
             Outcome(Raised("ZeroDivisionError"), stored, << >>, NoScale, count)
        ELSE IF needed = current
        THEN no_change(client, fault, queue_size, current, stored, count)
        ELSE IF needed > current
        THEN scale_up(client, fault, queue_size, current, needed, stored, dry, ecs_ok, count)
        ELSE scale_down(client, fault, queue_size, current, needed, stored, t, dry, ecs_ok, count)

----------------------------------------------------------------------------
(* Environment of the model *)

\* queue depths RabbitMQ reports
QueueSamples == {0, BacklogThreshold, MaxQueue}

\* Redis values present before the first call
InitialTimers ==
    {None, PyStr("empty"), PyStr("junk"), PyStr("nan"), str(-2)}

\* configurations of the model: MIN_WORKERS >= 0, MAX_WORKERS >= MIN_WORKERS,
\* TASKS_PER_WORKER >= 1, SCALE_DOWN_DELAY >= 0
MinWorkersSamples == {1}
MaxWorkersSamples == {MaxCount}
TasksPerWorkerSamples == {50}
DelaySamples == {0, 2}

\* the Redis outcomes of one call: no client, all commands succeed, or the
\* first / second command raises
StoreModes == {<< FALSE, 0 >>, << TRUE, 0 >>, << TRUE, 1 >>, << TRUE, 2 >>}

NoObs ==
    [called |-> FALSE, client |-> "None", queue |-> 0, current |-> 0,
     needed |-> 0, before |-> None, ops |-> << >>, sw |-> NoScale]

NoPrev == "-"

\* no scale_down_waiting result yet
NoWait == [stored |-> None, remaining |-> Fin(0), at |-> 0]

\* the calls that may be in progress at once, and a call not in progress; pc
\* is the statement the call executes next, needed its local of that name,
\* read its scale_down_time_str
Procs == {1, 2}
Idle == [pc |-> "idle", needed |-> 0, read |-> None]
NoneInFlight == [p \in Procs |-> Idle]

\* nothing raced: no two calls were in progress at once (overlapped), no call
\* overwrote or deleted a value of the key other than the one it had read
\* (lost), no two calls read the same stored timestamp and both went on to
\* scale down (double); taken is the call that last scaled down and the
\* value it had read, until the key is written again
NoRace == [overlapped |-> FALSE, lost |-> FALSE, double |-> FALSE,
           taken |-> [by |-> 0, v |-> None]]

\* no read of the queue or of the service failed
NoSignal == [qfail |-> FALSE, cfail |-> FALSE, ret |-> NoCall, store |-> None, count |-> 0]

\* no failed mutation to make up for
NoGap == [action |-> "-", client |-> "-", queue |-> 0, current |-> 0]

----------------------------------------------------------------------------
(* The state machine *)

InitConfig ==
    /\ MIN_WORKERS \in MinWorkersSamples
    /\ MAX_WORKERS \in MaxWorkersSamples
    /\ MAX_WORKERS >= MIN_WORKERS
    /\ TASKS_PER_WORKER \in TasksPerWorkerSamples
    /\ SCALE_DOWN_DELAY \in DelaySamples
    /\ DRY_RUN \in BOOLEAN

InitRun(track) ==
    /\ now = 0
    /\ timer \in InitialTimers
    /\ desiredCount \in 0 .. MaxCount
    /\ result = NoCall
    /\ obs = NoObs
    /\ hist = [track |-> track, reachable |-> TRUE, sustained |-> TRUE, cleared |-> None,
               prev |-> NoPrev, gap |-> NoGap, after |-> NoGap, wait |-> NoWait,
               signal |-> NoSignal, blind |-> TRUE, calls |-> 0, fails |-> 0,
               race |-> NoRace]
    /\ twin = [timer |-> timer, result |-> NoCall, sw |-> NoScale]
    /\ inflight = NoneInFlight

Init == InitConfig /\ InitRun("run")

InitInterrupt == InitConfig /\ InitRun("interrupt")

InitRepeat == InitConfig /\ InitRun("repeat")

InitReconcile == InitConfig /\ InitRun("reconcile")

InitDelay == InitConfig /\ InitRun("delay")

InitSignal == InitConfig /\ InitRun("signal") /\ ~DRY_RUN

\* the run's history after a call; hist.track says which part of it is kept:
\*   "run"        reachable: every call so far had a client and no Redis error;
\*                sustained: every call since the timer value was written
\*                observed needed < current
\*   "interrupt"  cleared: the time of the latest call that returned no_change
\*                or scale_up with a client
\*   "repeat"     prev: the action of the previous call, when it was made at
\*                this instant with the same client, queue size and worker count
\*   "reconcile"  gap: the action, client, queue size and worker count of
\*                this call when update_service raised in it (failed carries
\*                them, with action "-" when it did not);
\*                after: the gap of the previous call, when this call read the
\*                same queue size and the same worker count
\*   "delay"      wait: the latest scale_down_waiting result of an earlier
\*                instant (the stored value it read, its remaining and the
\*                time it was returned at), kept by Tick
\*   "signal"     signal: whether this call failed to read the queue (qfail)
\*                or the service (cfail), and what the function returns and
\*                leaves behind when it is handed 0 and MIN_WORKERS in place
\*                of the failed reads (reads carries them);
\*                blind: no call so far could read the queue
\*   "live"       calls: the number of calls so far, counted up to 2;
\*                fails: the number of calls in which update_service raised
History(ok, wrote, interrupted, same, failed, reads) ==
    [track |-> hist.track,
     reachable |-> IF hist.track = "run" THEN hist.reachable /\ ok ELSE TRUE,
     sustained |-> IF hist.track = "run"
                   THEN IF wrote THEN TRUE ELSE hist.sustained /\ ~interrupted
                   ELSE TRUE,
     cleared |-> IF hist.track = "interrupt" /\ ok /\ interrupted THEN str(now)
                 ELSE hist.cleared,
     prev |-> IF hist.track = "repeat" /\ same THEN result.action ELSE NoPrev,
     gap |-> IF hist.track = "reconcile" /\ failed.action # "-" THEN failed ELSE NoGap,
     after |-> IF /\ hist.track = "reconcile"
                  /\ hist.gap.queue = failed.queue /\ hist.gap.current = failed.current
               THEN hist.gap ELSE NoGap,
     wait |-> hist.wait,
     signal |-> IF hist.track = "signal" THEN reads ELSE NoSignal,
     blind |-> IF hist.track = "signal" THEN hist.blind /\ reads.qfail ELSE TRUE,
     calls |-> IF hist.track = "live" THEN Min(hist.calls + 1, 2) ELSE 0,
     fails |-> IF hist.track = "live" /\ failed.action # "-" THEN hist.fails + 1
               ELSE hist.fails,
     race |-> hist.race]

\* the scheduler calls autoscale_ecs_workers() once; the twin engine runs with
\* the other DRY_RUN setting on the same observations
Invoke ==
    \E store \in StoreModes, q_ok \in BOOLEAN, messages_ready \in QueueSamples,
       c_ok \in BOOLEAN, ecs_ok \in BOOLEAN :
        /\ (q_ok \/ messages_ready = 0)
        /\ LET client == get_redis_client(store[1])
               queue_size == get_queue_size(q_ok, messages_ready)
               current == get_current_workers(c_ok, desiredCount)
           IN  \E out \in {autoscale_ecs_workers(client, store[2], queue_size, current,
                                                 timer, now, DRY_RUN, ecs_ok, desiredCount)},
                  other \in {autoscale_ecs_workers(client, store[2], queue_size, current,
                                                   twin.timer, now, ~DRY_RUN, ecs_ok,
                                                   desiredCount)},
                  needed \in {IF TASKS_PER_WORKER = 0 THEN 0
                              ELSE needed_workers(queue_size)},
                  asif \in {IF hist.track = "signal"
                            THEN autoscale_ecs_workers(client, store[2],
                                     IF q_ok THEN messages_ready ELSE 0,
                                     IF c_ok THEN desiredCount ELSE MIN_WORKERS,
                                     timer, now, DRY_RUN, ecs_ok, desiredCount)
                            ELSE Outcome(NoCall, None, << >>, NoScale, 0)} :
                   /\ timer' = out.store
                   /\ desiredCount' = out.count
                   /\ result' = out.ret
                   /\ obs' = [called |-> TRUE, client |-> client, queue |-> queue_size,
                              current |-> current, needed |-> needed, before |-> timer,
                              ops |-> out.ops, sw |-> out.sw]
                   /\ hist' = History(client # "None" /\ Returned(out.ret),
                                      out.store # timer /\ out.store # None,
                                      needed >= current,
                                      /\ obs.called /\ Returned(result)
                                      /\ obs.queue = queue_size /\ obs.current = current
                                      /\ obs.client = client,
                                      [action |-> IF out.sw.raised THEN out.ret.action
                                                  ELSE "-",
                                       client |-> client, queue |-> queue_size,
                                       current |-> current],
                                      [qfail |-> ~q_ok, cfail |-> ~c_ok, ret |-> asif.ret,
                                       store |-> asif.store, count |-> asif.count])
                   /\ twin' = [timer |-> other.store, result |-> other.ret, sw |-> other.sw]
                   /\ UNCHANGED << cfgVars, now, inflight >>

\* a second passes; the call of the last instant is over
Tick ==
    /\ now < MaxTime
    /\ now' = now + 1
    /\ result' = NoCall
    /\ obs' = NoObs
    /\ twin' = [timer |-> twin.timer, result |-> NoCall, sw |-> NoScale]
    /\ hist' = IF hist.track = "delay" /\ "remaining" \in DOMAIN result
               THEN [hist EXCEPT !.wait = [stored |-> obs.before,
                                           remaining |-> result.remaining, at |-> now]]
               ELSE hist
    /\ UNCHANGED << cfgVars, timer, desiredCount, inflight >>

Next == Invoke \/ Tick

Spec == Init /\ [][Next]_vars

SpecInterrupt == InitInterrupt /\ [][Next]_vars

SpecRepeat == InitRepeat /\ [][Next]_vars

SpecReconcile == InitReconcile /\ [][Next]_vars

SpecDelay == InitDelay /\ [][Next]_vars

SpecSignal == InitSignal /\ [][Next]_vars

----------------------------------------------------------------------------
(* A sustained need to scale down.  The scheduler keeps calling, the clock   *)
(* keeps advancing, every call has a Redis client and no Redis command       *)
(* fails, and while the service runs more than MIN_WORKERS tasks every call   *)
(* observes needed < current; a service at MIN_WORKERS is observed as it is.  *)
(* update_service raises at most MaxFailures times.  The clock passes         *)
(* MaxTime only while a stored timestamp has not yet aged SCALE_DOWN_DELAY.   *)

InitLive ==
    /\ InitConfig
    /\ InitRun("live")
    /\ ~DRY_RUN
    /\ desiredCount >= MIN_WORKERS

InvokeLive ==
    /\ Invoke
    /\ obs'.client # "None" /\ Returned(result')
    /\ IF desiredCount > MIN_WORKERS THEN obs'.needed < obs'.current
       ELSE result'.action = "no_change"
    /\ hist'.fails <= MaxFailures

TickLive ==
    /\ \/ now < MaxTime
       \/ timer.k = "num" /\ now < timer.v + SCALE_DOWN_DELAY
    /\ now' = now + 1
    /\ result' = NoCall
    /\ obs' = NoObs
    /\ twin' = [timer |-> twin.timer, result |-> NoCall, sw |-> NoScale]
    /\ UNCHANGED << cfgVars, timer, desiredCount, hist, inflight >>

NextLive == InvokeLive \/ TickLive

SpecLive ==
    InitLive /\ [][NextLive]_vars /\ WF_vars(InvokeLive) /\ WF_vars(TickLive)

----------------------------------------------------------------------------
(* Overlapping calls.  Nothing in the source keeps a second call of          *)
(* autoscale_ecs_workers() from starting while one is in progress, and the   *)
(* Redis commands and update_service are separate requests, so the calls     *)
(* interleave at those requests.  Each call here has a Redis client and its  *)
(* requests succeed, except that update_service may fail.                    *)

\* redis_client.get(scale_down_key), line 223
redis_get_stale(stored) == None

redis_get(stored) == stored

InitRace ==
    /\ InitConfig
    /\ InitRun("race")
    /\ ~DRY_RUN
    /\ timer \in {None, str(-2)}

\* the other call
Other(p) == CHOOSE q \in Procs : q # p

\* what the step of call p leaves in hist: overlapped when the other call is
\* in progress too, and the race fields as given
Raced(p, lost, double, taken) ==
    [hist EXCEPT !.race = [overlapped |-> hist.race.overlapped
                                            \/ inflight[Other(p)].pc # "idle",
                           lost |-> hist.race.lost \/ lost,
                           double |-> hist.race.double \/ double,
                           taken |-> taken]]

\* lines 179-191: read the queue and the service, compute needed
Begin(p) ==
    /\ inflight[p].pc = "idle"
    /\ \E q_ok \in BOOLEAN, messages_ready \in QueueSamples, c_ok \in BOOLEAN :
           /\ (q_ok \/ messages_ready = 0)
           /\ LET queue_size == get_queue_size(q_ok, messages_ready)
                  current == get_current_workers(c_ok, desiredCount)
                  needed == needed_workers(queue_size)
              IN  inflight' = [inflight EXCEPT ![p] =
                      [pc |-> IF needed = current THEN "clear"
                              ELSE IF needed > current THEN "clear_up" ELSE "get",
                       needed |-> needed, read |-> None]]
    /\ hist' = Raced(p, FALSE, FALSE, hist.race.taken)
    /\ UNCHANGED << cfgVars, now, timer, desiredCount, result, obs, twin >>

\* lines 199 and 208: delete the key, then return no_change or go on to scale up
Clear(p) ==
    /\ inflight[p].pc \in {"clear", "clear_up"}
    /\ timer' = redis_delete(timer)
    /\ inflight' = [inflight EXCEPT ![p] =
                       IF inflight[p].pc = "clear" THEN Idle
                       ELSE [inflight[p] EXCEPT !.pc = "scale_up"]]
    /\ hist' = Raced(p, FALSE, FALSE, hist.race.taken)
    /\ UNCHANGED << cfgVars, now, desiredCount, result, obs, twin >>

\* line 223
Get(p) ==
    /\ inflight[p].pc = "get"
    /\ inflight' = [inflight EXCEPT ![p] =
                       [inflight[p] EXCEPT !.pc = "got", !.read = redis_get(timer)]]
    /\ hist' = Raced(p, FALSE, FALSE, hist.race.taken)
    /\ UNCHANGED << cfgVars, now, timer, desiredCount, result, obs, twin >>

\* lines 226-231 and 237-242: no timer, or an invalid one: store the time, return
Write(p) ==
    /\ inflight[p].pc = "got"
    /\ \/ Falsy(inflight[p].read)
       \/ float(inflight[p].read).k \in {"ValueError", "TypeError"}
    /\ timer' = redis_set(timer, str(now))
    /\ inflight' = [inflight EXCEPT ![p] = Idle]
    /\ hist' = Raced(p, timer # inflight[p].read /\ timer # None, FALSE,
                     [by |-> 0, v |-> None])
    /\ UNCHANGED << cfgVars, now, desiredCount, result, obs, twin >>

\* lines 251-262: the delay has not elapsed, return scale_down_waiting
Wait(p) ==
    /\ inflight[p].pc = "got"
    /\ ~Falsy(inflight[p].read)
    /\ float(inflight[p].read).k \notin {"ValueError", "TypeError"}
    /\ ~delay_elapsed(FloatSub(now, float(inflight[p].read)))
    /\ inflight' = [inflight EXCEPT ![p] = Idle]
    /\ hist' = Raced(p, FALSE, FALSE, hist.race.taken)
    /\ UNCHANGED << cfgVars, now, timer, desiredCount, result, obs, twin >>

\* lines 245-246: the delay has elapsed, delete the key
Delete(p) ==
    /\ inflight[p].pc = "got"
    /\ ~Falsy(inflight[p].read)
    /\ float(inflight[p].read).k \notin {"ValueError", "TypeError"}
    /\ delay_elapsed(FloatSub(now, float(inflight[p].read)))
    /\ timer' = redis_delete(timer)
    /\ inflight' = [inflight EXCEPT ![p] = [inflight[p] EXCEPT !.pc = "scale_down"]]
    /\ hist' = Raced(p, timer # inflight[p].read /\ timer # None, FALSE, hist.race.taken)
    /\ UNCHANGED << cfgVars, now, desiredCount, result, obs, twin >>

\* lines 209 and 247: scale_workers(needed), then return
Scale(p) ==
    /\ inflight[p].pc \in {"scale_up", "scale_down"}
    /\ \E ecs_ok \in BOOLEAN :
           desiredCount' = scale_workers(inflight[p].needed, DRY_RUN, ecs_ok,
                                         desiredCount).count
    /\ inflight' = [inflight EXCEPT ![p] = Idle]
    /\ hist' = IF inflight[p].pc = "scale_up"
               THEN Raced(p, FALSE, FALSE, hist.race.taken)
               ELSE Raced(p, FALSE,
                          /\ hist.race.taken.by = Other(p)
                          /\ hist.race.taken.v = inflight[p].read,
                          [by |-> p, v |-> inflight[p].read])
    /\ UNCHANGED << cfgVars, now, timer, result, obs, twin >>

Step(p) ==
    \/ Begin(p)
    \/ Clear(p)
    \/ Get(p)
    \/ Write(p)
    \/ Wait(p)
    \/ Delete(p)
    \/ Scale(p)

NextRace == Tick \/ \E p \in Procs : Step(p)

SpecRace == InitRace /\ [][NextRace]_vars

----------------------------------------------------------------------------
(* Start of the process, lines 41-44: each setting is int(os.getenv(...)),   *)
(* and any integers are taken as they are.  EnvSamples holds one valid       *)
(* environment and environments that break one constraint each, as           *)
(* << MIN_WORKERS, MAX_WORKERS, TASKS_PER_WORKER, SCALE_DOWN_DELAY >>.       *)

EnvSamples ==
    { << 1, MaxCount, 50, 2 >>,
      << MaxCount, 1, 50, 2 >>,
      << 1, MaxCount, 0, 2 >>,
      << 1, MaxCount, -1, 2 >>,
      << -1, MaxCount, 50, 2 >>,
      << 1, MaxCount, 50, -1 >> }

InitStartup ==
    /\ \E env \in EnvSamples :
           /\ MIN_WORKERS = env[1]
           /\ MAX_WORKERS = env[2]
           /\ TASKS_PER_WORKER = env[3]
           /\ SCALE_DOWN_DELAY = env[4]
    /\ DRY_RUN = FALSE
    /\ now = 0
    /\ timer = None
    /\ desiredCount \in {0, MaxCount}
    /\ result = NoCall
    /\ obs = NoObs
    /\ hist = [track |-> "startup", reachable |-> TRUE, sustained |-> TRUE, cleared |-> None,
               prev |-> NoPrev, gap |-> NoGap, after |-> NoGap, wait |-> NoWait,
               signal |-> NoSignal, blind |-> TRUE, calls |-> 0, fails |-> 0,
               race |-> NoRace]
    /\ twin = [timer |-> None, result |-> NoCall, sw |-> NoScale]
    /\ inflight = NoneInFlight

SpecStartup == InitStartup /\ [][Next]_vars

----------------------------------------------------------------------------
(* The target calculation on its own: every valid configuration of the model *)
(* and every queue depth up to MaxQueue.                                     *)

WideTasksPerWorker == {1, 50, 200}

InitCalc ==
    /\ MIN_WORKERS \in 0 .. MaxCount
    /\ MAX_WORKERS \in MIN_WORKERS .. MaxCount
    /\ TASKS_PER_WORKER \in WideTasksPerWorker
    /\ SCALE_DOWN_DELAY = 0
    /\ DRY_RUN = FALSE
    /\ now = 0
    /\ timer = None
    /\ desiredCount = 0
    /\ result = NoCall
    /\ obs = NoObs
    /\ hist = [track |-> "calc", reachable |-> TRUE, sustained |-> TRUE, cleared |-> None,
               prev |-> NoPrev, gap |-> NoGap, after |-> NoGap, wait |-> NoWait,
               signal |-> NoSignal, blind |-> TRUE, calls |-> 0, fails |-> 0,
               race |-> NoRace]
    /\ twin = [timer |-> None, result |-> NoCall, sw |-> NoScale]
    /\ inflight = NoneInFlight

\* lines 183-191 for one queue depth
Calculate ==
    \E queue_size \in 0 .. MaxQueue :
        /\ obs' = [NoObs EXCEPT !.called = TRUE, !.queue = queue_size,
                                !.needed = needed_workers(queue_size)]
        /\ UNCHANGED << cfgVars, now, timer, desiredCount, result, hist, twin, inflight >>

SpecCalc == InitCalc /\ [][Calculate]_vars

----------------------------------------------------------------------------
(* Vocabulary of the claims *)

ActionKinds ==
    {"no_change", "scale_up", "scale_down", "scale_down_delayed", "scale_down_waiting",
     "scale_down_timer_reset"}

\* the call at this instant returned a dict with this action
Did(action) == obs.called /\ Returned(result) /\ result.action = action

\* the call at this instant had a Redis client and no Redis command raised
Reachable == obs.called /\ obs.client # "None" /\ Returned(result)

\* the call at this instant called scale_workers with a value below current
ScaledDown == obs.called /\ obs.sw.called /\ obs.sw.arg < obs.current

\* time.time() - float(s) >= SCALE_DOWN_DELAY for the stored string s
Expired(s) ==
    /\ ~Falsy(s)
    /\ float(s).k \notin {"ValueError", "TypeError"}
    /\ FloatGE(FloatSub(now, float(s)), SCALE_DOWN_DELAY)

----------------------------------------------------------------------------
(* C1  Hysteresis safety.  In a run in which every call so far had a Redis   *)
(* client and no Redis command failed, a call passes a value below current   *)
(* to scale_workers only when it returns scale_down, a timer was stored      *)
(* before the call, now - stored timestamp >= SCALE_DOWN_DELAY, and every    *)
(* call since that timestamp was written observed needed < current.          *)

C1_HysteresisSafety ==
    (hist.reachable /\ ScaledDown) =>
        /\ Did("scale_down")
        /\ obs.sw.arg = obs.needed
        /\ Expired(obs.before)
        /\ hist.sustained

C1_Witness ==
    /\ hist.reachable /\ ScaledDown /\ Did("scale_down")
    /\ SCALE_DOWN_DELAY > 0
    /\ obs.before.k = "num" /\ obs.before.v >= 0

----------------------------------------------------------------------------
(* C2  Scale-up is immediate.  Every call that observes needed > current     *)
(* returns scale_up with from = current and to = needed, has called          *)
(* scale_workers with exactly needed and, when a client exists, has deleted  *)
(* the timer key without reading it.                                         *)

C2_ScaleUpImmediate ==
    (obs.called /\ obs.needed > obs.current) =>
        /\ Did("scale_up")
        /\ result.from = obs.current /\ result.to = obs.needed
        /\ obs.sw.called /\ obs.sw.arg = obs.needed
        /\ obs.client # "None" => (timer = None /\ obs.ops = << "delete" >>)

----------------------------------------------------------------------------
(* C3  Interruption resets the delay.                                        *)

\* As claimed: after a call that returns no_change or scale_up while a timer
\* is stored, the timer key is absent.
C3_InterruptionDeletesTimer ==
    ((Did("no_change") \/ Did("scale_up")) /\ obs.before # None) => timer = None

\* As amended: a call with a Redis client that returns no_change or scale_up
\* leaves the key absent; a call with a client that observes needed < current
\* and finds no timer returns scale_down_delayed and stores the current time;
\* and a scale-down executed after the delay rests on a timestamp that is not
\* older than the latest such interruption.
C3_InterruptionResetsDelay ==
    /\ (Reachable /\ (Did("no_change") \/ Did("scale_up"))) =>
           (timer = None /\ hist.cleared = str(now))
    /\ (Reachable /\ obs.needed < obs.current /\ Falsy(obs.before)) =>
           (Did("scale_down_delayed") /\ timer = str(now))
    /\ (Reachable /\ Did("scale_down") /\ hist.cleared # None) =>
           (obs.before.k = "num" /\ obs.before.v >= hist.cleared.v)

C3_Witness ==
    /\ Reachable /\ Did("scale_down") /\ hist.cleared # None
    /\ SCALE_DOWN_DELAY > 0
    /\ now - obs.before.v = SCALE_DOWN_DELAY

----------------------------------------------------------------------------
(* C4  Idempotence.  hist.prev is the action of the previous call when that  *)
(* call was made at this instant with the same client, queue size and        *)
(* worker count.                                                             *)

Repeated == obs.called /\ Returned(result) /\ hist.prev # NoPrev

\* As claimed: the second call returns the same action kind as the first.
C4_SameActionTwice == Repeated => result.action = hist.prev

\* As amended: the action repeats after no_change, scale_up,
\* scale_down_waiting and the scale_down of a call without a client; with a
\* client, scale_down_delayed and scale_down_timer_reset are followed by
\* scale_down_waiting (by scale_down when SCALE_DOWN_DELAY is 0), a
\* scale_down by scale_down_delayed, so no two calls in a row execute it.
C4_Idempotence ==
    Repeated =>
        /\ hist.prev \in {"no_change", "scale_up", "scale_down_waiting"} =>
               result.action = hist.prev
        /\ (hist.prev = "scale_down" /\ obs.client = "None") =>
               result.action = "scale_down"
        /\ (hist.prev = "scale_down" /\ obs.client # "None") =>
               result.action = "scale_down_delayed"
        /\ hist.prev \in {"scale_down_delayed", "scale_down_timer_reset"} =>
               result.action = IF SCALE_DOWN_DELAY = 0 THEN "scale_down"
                               ELSE "scale_down_waiting"

C4_Witness ==
    /\ Repeated /\ obs.client # "None"
    /\ hist.prev = "scale_down" /\ result.action = "scale_down_delayed"

----------------------------------------------------------------------------
(* C5  Target bounds.  needed = clamp(ceil(queue_size / tasks_per_worker),   *)
(* lower_bound, max_workers) with lower_bound = 2 if queue_size >= 100 else  *)
(* min_workers, and needed lies in [lower_bound, max_workers].               *)

LowerBound(queue_size) ==
    IF queue_size >= BacklogThreshold THEN BacklogWorkers ELSE MIN_WORKERS

C5_TargetBounds ==
    obs.called =>
        /\ obs.needed = Max(LowerBound(obs.queue),
                            Min(ceil(obs.queue, TASKS_PER_WORKER), MAX_WORKERS))
        /\ obs.needed >= LowerBound(obs.queue)
        /\ obs.needed <= MAX_WORKERS

----------------------------------------------------------------------------
(* C6  Degraded mode.  Every call that finds the timer store unavailable (no *)
(* client, or a Redis command that fails) and observes needed < current      *)
(* calls scale_workers with needed in that call and returns scale_down with  *)
(* the note that marks the store unavailable, without a Redis command.       *)

StoreUnavailable == obs.called /\ (obs.client = "None" \/ ~Returned(result))

C6_DegradedScaleDown ==
    (StoreUnavailable /\ obs.needed < obs.current) =>
        /\ Did("scale_down")
        /\ "note" \in DOMAIN result /\ result.note = "redis_unavailable"
        /\ obs.sw.called /\ obs.sw.arg = obs.needed
        /\ obs.ops = << >>

----------------------------------------------------------------------------
(* C7  No failure of a collaborator escapes: every call returns a dict with  *)
(* one of the documented actions.                                            *)

C7_NothingEscapes ==
    obs.called => (Returned(result) /\ result.action \in ActionKinds)

----------------------------------------------------------------------------
(* C8  Persisted-state invariant.                                            *)

Settled == {"no_change", "scale_up", "scale_down"}
Pending == {"scale_down_delayed", "scale_down_waiting", "scale_down_timer_reset"}

\* As claimed: after every call that returns, the key is absent when the
\* action is no_change, scale_up or scale_down, whether or not the store was
\* available.
C8_KeyAbsentUnlessPending ==
    (obs.called /\ Returned(result) /\ result.action \in Settled) => timer = None

\* As amended: after every call that had a Redis client and returned, the key
\* is absent when the action is no_change, scale_up or scale_down and holds a
\* non-empty value when it is scale_down_delayed, scale_down_waiting or
\* scale_down_timer_reset; a call without a client leaves the key as it was.
C8_PersistedState ==
    /\ Reachable =>
           /\ result.action \in Settled => timer = None
           /\ result.action \in Pending => ~Falsy(timer)
           /\ result.action \in Settled \cup Pending
    /\ (obs.called /\ obs.client = "None") => (timer = obs.before /\ Returned(result))

C8_Witness ==
    /\ Reachable /\ Did("scale_down") /\ obs.before # None /\ timer = None

----------------------------------------------------------------------------
(* C9  Dry-run equivalence.  twin is the engine with the other DRY_RUN       *)
(* setting, fed the same observations at every call: both return the same    *)
(* result and leave the same timer, both call scale_workers alike, and only  *)
(* the live one calls update_service.                                        *)

DrySw == IF DRY_RUN THEN obs.sw ELSE twin.sw
LiveSw == IF DRY_RUN THEN twin.sw ELSE obs.sw

C9_DryRunEquivalence ==
    /\ twin.result = result
    /\ twin.timer = timer
    /\ DrySw.called = LiveSw.called /\ DrySw.arg = LiveSw.arg
    /\ ~DrySw.attempted
    /\ LiveSw.attempted = LiveSw.called

C9_Witness ==
    /\ Did("scale_down") /\ obs.client # "None"
    /\ LiveSw.attempted /\ DrySw.called

----------------------------------------------------------------------------
(* C10  A failed mutation does not change the decision.  In every call that  *)
(* returns scale_up or scale_down the decision returned and the timer are    *)
(* what the observations alone determine, whether update_service succeeded   *)
(* or raised (the timer is deleted first and is not restored), and a failure *)
(* is reported to the caller: what the call returns says that it failed.     *)

ScaleResult ==
    IF obs.client = "None" /\ result.action = "scale_down"
    THEN [action |-> "scale_down", from |-> obs.current, to |-> obs.needed,
          queue |-> obs.queue, note |-> "redis_unavailable"]
    ELSE [action |-> result.action, from |-> obs.current, to |-> obs.needed,
          queue |-> obs.queue]

\* the keys of the dicts returned after a successful mutation, lines 210, 220, 249
DecisionKeys == {"action", "from", "to", "queue", "note"}

\* the part that holds: the decision and the timer do not depend on the outcome
\* of update_service, which scale_workers returns to autoscale_ecs_workers
C10_DecisionUnaffected ==
    (Did("scale_up") \/ Did("scale_down")) =>
        /\ result = ScaleResult
        /\ timer = IF obs.client = "None" THEN obs.before ELSE None
        /\ obs.sw.called /\ obs.sw.arg = obs.needed
        /\ obs.sw.ok = ~obs.sw.raised
        /\ obs.sw.raised => obs.sw.attempted
        /\ (obs.sw.attempted /\ ~obs.sw.raised) => desiredCount = obs.needed

C10_MutationFailure ==
    /\ C10_DecisionUnaffected
    /\ ((Did("scale_up") \/ Did("scale_down")) /\ obs.sw.raised) =>
           ~(DOMAIN result \subseteq DecisionKeys)

----------------------------------------------------------------------------
(* C11  Reconciliation on the next call.  hist.after is the failed mutation  *)
(* of the previous call (its action and client) when this call read the same *)
(* queue size and the same worker count.                                     *)

AfterFailed(action) == obs.called /\ hist.after.action = action

\* As claimed: the call that follows a failed mutation of a scale_up or of an
\* executed scale_down, and reads the same queue size and worker count, calls
\* update_service with needed.
C11_NextCallRetries ==
    (AfterFailed("scale_up") \/ AfterFailed("scale_down")) =>
        (obs.sw.called /\ obs.sw.attempted /\ obs.sw.arg = obs.needed)

\* As amended: when that call returns, it retries a failed scale_up, and it
\* retries a failed scale_down when it has no Redis client; after a
\* scale_down that failed in a call with a client, a call with a client finds
\* the key deleted, returns scale_down_delayed, stores the current time and
\* does not call update_service.
C11_Reconciliation ==
    /\ (AfterFailed("scale_up") /\ Returned(result)) =>
           /\ Did("scale_up")
           /\ obs.sw.called /\ obs.sw.attempted /\ obs.sw.arg = obs.needed
    /\ (AfterFailed("scale_down") /\ obs.client = "None") =>
           /\ Did("scale_down")
           /\ obs.sw.called /\ obs.sw.attempted /\ obs.sw.arg = obs.needed
    /\ (AfterFailed("scale_down") /\ hist.after.client # "None" /\ Reachable) =>
           /\ obs.before = None
           /\ Did("scale_down_delayed")
           /\ ~obs.sw.called
           /\ timer = str(now)

C11_Witness ==
    /\ AfterFailed("scale_down") /\ hist.after.client # "None" /\ Reachable
    /\ Did("scale_down_delayed")
    /\ now > 0

----------------------------------------------------------------------------
(* C12  Monotonic delay.  Every scale_down_waiting result carries            *)
(* remaining = SCALE_DOWN_DELAY - (now - stored timestamp) > 0; of two       *)
(* successive scale_down_waiting results for the same stored value the later *)
(* one, returned at a later time, carries the smaller remaining; and a call  *)
(* with a client that observes needed < current and reads the value of an    *)
(* earlier scale_down_waiting result returns something else only at or after *)
(* stored timestamp + SCALE_DOWN_DELAY.                                      *)

\* f > a for a float f and an int a
FloatGT(f, a) ==
    CASE f.k = "fin" -> f.v > a
      [] f.k = "pinf" -> TRUE
      [] OTHER -> FALSE

\* f < g for floats f and g
FloatLT(f, g) ==
    CASE f.k = "nan" \/ g.k = "nan" -> FALSE
      [] f.k = "fin" /\ g.k = "fin" -> f.v < g.v
      [] OTHER -> f.k # g.k /\ (f.k = "ninf" \/ g.k = "pinf")

C12_MonotonicDelay ==
    /\ Did("scale_down_waiting") =>
           /\ FloatGT(result.remaining, 0)
           /\ obs.before.k = "num"
           /\ result.remaining = Fin(SCALE_DOWN_DELAY - (now - obs.before.v))
    /\ (Did("scale_down_waiting") /\ hist.wait.stored = obs.before
            /\ now > hist.wait.at) =>
           FloatLT(result.remaining, hist.wait.remaining)
    /\ (Reachable /\ obs.needed < obs.current /\ obs.before # None
            /\ hist.wait.stored = obs.before /\ ~Did("scale_down_waiting")) =>
           /\ obs.before.k = "num"
           /\ now >= obs.before.v + SCALE_DOWN_DELAY

\* the part that holds: the same, for stored values that are finite numbers
C12_FiniteTimestamps ==
    obs.before.k = "num" => C12_MonotonicDelay

C12_FiniteWitness ==
    /\ Did("scale_down_waiting") /\ hist.wait.stored = obs.before
    /\ now > hist.wait.at

----------------------------------------------------------------------------
(* C13  Corrupted timer recovery.  A call with a client and no Redis error   *)
(* that observes needed < current and reads a stored value that is present   *)
(* but is not a timestamp (any string other than a number, the empty string  *)
(* included) stores the current time, returns scale_down_timer_reset and     *)
(* does not call scale_workers, so that the delay counts from now.           *)

\* the stored value is present and is not the text of a number
Corrupted(s) == s # None /\ s.k # "num"

C13_CorruptedTimerRecovery ==
    (Reachable /\ obs.needed < obs.current /\ Corrupted(obs.before)) =>
        /\ Did("scale_down_timer_reset")
        /\ timer = str(now)
        /\ ~obs.sw.called
        /\ obs.ops = << "get", "set" >>

\* the part that holds: the same, for the non-empty strings float() rejects
C13_RejectedByFloat ==
    (~Falsy(obs.before) /\ float(obs.before) = float_ValueError) =>
        C13_CorruptedTimerRecovery

C13_RejectedWitness ==
    /\ Did("scale_down_timer_reset") /\ obs.before = PyStr("junk")
    /\ timer = str(now) /\ now > 0

----------------------------------------------------------------------------
(* C14  Target contract.                                                     *)

----------------------------------------------------------------------------
(* C15  Configuration violations are fatal at startup.  No call of           *)
(* autoscale_ecs_workers() runs with MAX_WORKERS < MIN_WORKERS,              *)
(* TASKS_PER_WORKER < 1, a negative MIN_WORKERS or a negative                *)
(* SCALE_DOWN_DELAY, and none fails because of the configuration: by a       *)
(* division by zero, or with needed above MAX_WORKERS.                       *)

ValidConfig ==
    /\ MIN_WORKERS >= 0
    /\ MAX_WORKERS >= MIN_WORKERS
    /\ TASKS_PER_WORKER >= 1
    /\ SCALE_DOWN_DELAY >= 0

C15_ConfigValidated ==
    obs.called =>
        /\ ValidConfig
        /\ result # Raised("ZeroDivisionError")
        /\ obs.needed <= MAX_WORKERS

----------------------------------------------------------------------------
(* C16  Frame of the capacity mutation.  scale_workers is called, and        *)
(* update_service attempted, only in calls that return scale_up or           *)
(* scale_down, and then with needed (each path of the function holds one     *)
(* call, which is the one the model records); a call that returns no_change, *)
(* scale_down_delayed, scale_down_waiting or scale_down_timer_reset, or that *)
(* raises, leaves the desired count of the service as it was, and so does a  *)
(* dry run or a failed update_service.                                       *)

MutationFrame ==
    obs.called =>
        /\ (obs.sw.called \/ obs.sw.attempted) =>
               /\ Did("scale_up") \/ Did("scale_down")
               /\ obs.sw.called /\ obs.sw.arg = obs.needed
        /\ (Did("scale_up") \/ Did("scale_down")) => obs.sw.called
        /\ (obs.sw.attempted /\ ~obs.sw.raised) => desiredCount = obs.needed

C16_MutationFrame ==
    /\ []MutationFrame
    /\ [][ (obs'.called /\ ~(obs'.sw.attempted /\ ~obs'.sw.raised))
              => desiredCount' = desiredCount ]_vars
    /\ [][ ~obs'.called => desiredCount' = desiredCount ]_vars

C16_Witness ==
    /\ Did("scale_down_delayed") /\ ~obs.sw.called /\ ~DRY_RUN
    /\ desiredCount = obs.current /\ desiredCount > obs.needed

----------------------------------------------------------------------------
(* C17  Signal fallbacks.  A call that fails to read the queue returns, and  *)
(* leaves the timer and the desired count, exactly as the function does when *)
(* it is handed queue_size = 0; a call that fails to read the service, as    *)
(* when it is handed current = MIN_WORKERS; the dict returned is that of the *)
(* successful read, so the failure does not show in it.                      *)

AsIf ==
    /\ result = hist.signal.ret
    /\ timer = hist.signal.store
    /\ desiredCount = hist.signal.count

C17_SignalFallbacks ==
    /\ (obs.called /\ hist.signal.qfail) => (obs.queue = 0 /\ AsIf)
    /\ (obs.called /\ hist.signal.cfail) => (obs.current = MIN_WORKERS /\ AsIf)

\* a scale-down waited for and executed in a run in which no call could read
\* the queue
C17_Witness ==
    /\ hist.blind /\ hist.signal.qfail /\ Did("scale_down") /\ obs.client # "None"
    /\ SCALE_DOWN_DELAY > 0
    /\ obs.before.k = "num" /\ obs.before.v >= 0

----------------------------------------------------------------------------
(* C18  Scale-down eventually happens.                                       *)

NeedsScaleDown == desiredCount > MIN_WORKERS

\* a call returned scale_down, called scale_workers with the needed of that
\* call and deleted the timer
ScaleDownExecuted ==
    /\ Did("scale_down")
    /\ obs.sw.called /\ obs.sw.arg = obs.needed
    /\ timer = None

\* the stored value parses as a float that no clock reading ever exceeds by
\* SCALE_DOWN_DELAY
NeverExpires(s) == s.k \in {"nan", "inf"}

----------------------------------------------------------------------------
(* C19  Timer race under overlapping calls.  The key is read (line 223) and  *)
(* written or deleted (lines 228, 241, 246) in separate requests.  When no   *)
(* two calls have been in progress at once, every call that writes or        *)
(* deletes the key after reading it finds the value it read, no call         *)
(* destroys a value it has not seen, and no two calls scale down on one      *)
(* stored timestamp; when calls overlap, both of these happen (the witness). *)

\* call p has read the key and is about to write or delete it
Deciding(p) == inflight[p].pc = "got"

C19_SerialCallsDoNotRace ==
    ~hist.race.overlapped =>
        /\ ~hist.race.lost
        /\ ~hist.race.double
        /\ \A p \in Procs : Deciding(p) => inflight[p].read = timer

C19_Witness ==
    /\ hist.race.overlapped
    /\ hist.race.double
    /\ hist.race.lost

====
